---------------------------- MODULE Spec2Model ----------------------------
(***************************************************************************)
(* A model of the Kokoro Doctor backend: the request handlers of the       *)
(* booking, authentication, MediLocker, doctors-service and chat lambdas,  *)
(* each an atomic step over the shared stores (requests are processed one  *)
(* at a time unless a specification says otherwise).                       *)
(*                                                                         *)
(* Every handler leaves its request and its HTTP response in `last`.       *)
(* Strings the handlers build and take apart again (f"{doctor}#{date}",    *)
(* f"{start}-{end}", f"{email}/{filename}") are tuples here: the inputs    *)
(* the model draws hold none of the separators '#', '-' and '/'.           *)
(***************************************************************************)
EXTENDS Integers, Sequences, FiniteSets, TLC

VARIABLES
    bookings,       \* DoctorBookingsTable: a set of items, one per (PK, SK)
    availability,   \* DoctorAvailabilityTable: a set of items, one per (PK, SK)
    slot_history,   \* history: per (date, start), "fresh", "held" (booked, no cancel
                    \* request since) or "released" (a cancel request came last)
    users,          \* users table: a set of items, one per email
    doctors,        \* doctors table: a set of items, one per email
    auth_tokens,    \* auth tokens table: a set of items, one per (email, purpose)
    issued,         \* the tokens uuid4 has produced so far
    retired,        \* history: <<email, purpose, token>> deleted or overwritten
    objects,        \* the MediLocker bucket: a set of objects, one per key
    chat_table,     \* chat history table: a set of items, one per (email, timestamp)
    now,            \* the clock, in seconds
    documents,      \* the doctor documents bucket: a set of objects, one per key
    payments,       \* payments table: a set of items, one per payment_id
    payment_writes, \* history: per payment_id, the put_item calls made for it
    gateway,        \* the payment gateway: per payment_id, the payment it reports
    inflight,       \* book requests that have read the bookings and not yet written
    last            \* the last request and its response

vars == <<bookings, availability, slot_history, users, doctors, auth_tokens, issued, retired,
          objects, chat_table, now, documents, payments, payment_writes, gateway,
          inflight, last>>

bookVars  == <<bookings, availability>>
authVars  == <<users, doctors, auth_tokens, issued, retired>>
vaultVars == <<objects>>
chatVars  == <<chat_table, now>>
docVars   == <<documents>>
payVars   == <<payments, payment_writes, gateway>>
restVars  == <<docVars, payVars, inflight>>

NoRequest == [op |-> "none"]

\* A response: on success the {"message": ...} or the records the handler
\* returns (body, a set of records); HTTPException(status, detail) otherwise.
Ok(message) == [status |-> 200, detail |-> "", message |-> message, body |-> {}]
OkBody(body) == [status |-> 200, detail |-> "", message |-> "", body |-> body]
HTTPException(status, detail) ==
    [status |-> status, detail |-> detail, message |-> "", body |-> {}]

\* An exception that is no HTTPException (a KeyError, a store error) raised in a
\* handler: status 0 until a handler's except clause turns it into a response.
PyException(text) == [status |-> 0, detail |-> text, message |-> "", body |-> {}]

\* `except HTTPException as he: raise he` followed by `except Exception as e:
\* raise HTTPException(500, detail=str(e))`: a declared error reaches the caller
\* unchanged, any other exception leaves as a 500.
Reraise(resp) ==
    IF resp.status = 0 THEN [resp EXCEPT !.status = 500] ELSE resp

\* `except Exception as e: raise HTTPException(500, detail=str(e))` with no
\* `except HTTPException` before it: HTTPException is an Exception, so every
\* error raised in the try block, the declared ones included, leaves as a 500.
CatchAll(resp) ==
    IF resp.status = 200 THEN resp ELSE HTTPException(500, "str(e)")

\* put_item: the item replaces the one with the same primary key.
PutItem(table, item) ==
    {i \in table : ~(i.PK = item.PK /\ i.SK = item.SK)} \cup {item}
DeleteItem(table, pk, sk) ==
    {i \in table : ~(i.PK = pk /\ i.SK = sk)}

(***************************************************************************)
(* Doctor bookings                                                         *)
(***************************************************************************)
NumPatients == 6
Capacity == 5
BookingTtlDays == 7
DaysPerWeek == 7

Doctor    == "d1"
Patients  == 1 .. NumPatients
\* Calendar dates as day numbers; 1 and 8 fall on the same weekday.
Dates     == {1, 8}
\* The dates bookings are requested for; slots of the other date are only read.
BookDates == {1}
Starts    == {"10:00", "11:00"}
Ranges    == {<<"10:00", "10:30">>, <<"11:00", "11:30">>}

\* datetime.strptime(date, "%Y-%m-%d").strftime("%A")
Weekday(date) == date % DaysPerWeek

\* int((strptime(date) + timedelta(days=7)).timestamp()), in days
Expiry(date) == date + BookingTtlDays

\* Key("PK").eq(pk) & Key("SK").begins_with(start): starts are HH:MM, all of
\* one length, so a sort key "start#user" begins with `start` iff its start
\* component is `start`.
QueryBookings(pk, start) ==
    {i \in bookings : i.PK = pk /\ i.SK[1] = start}


\* The weekly template a doctor has set: set_availability and update_slot of the
\* doctors service write items {PK, SK, available}.
TemplateItem(range, flag) ==
    [PK |-> <<Doctor, Weekday(1)>>, SK |-> range, available |-> flag]

\* Every patient asks for the 10:00 slot; the 11:00 slot of the same day is asked
\* for by patient 1 alone (enough for a booking under another start to exist).
BookSlotInputs ==
    {d \in [doctor_id : {Doctor}, date : BookDates, start : Starts, user_id : Patients] :
        d.start = "10:00" \/ d.user_id = 1}
AvailableSlotsRequests == [doctor_id : {Doctor}, date : Dates]

BookingItem(data) ==
    [PK |-> <<data.doctor_id, data.date>>, SK |-> <<data.start, data.user_id>>,
     doctor_id |-> data.doctor_id, date |-> data.date, start |-> data.start,
     user_id |-> data.user_id]

\* ---- the capacity model: build/DoctorBookingsLambda ----

\* The body of book_slot's try block: what it raises or returns.
book_slot_capacity_try(data) ==
    LET slot_users == {i.user_id : i \in QueryBookings(<<data.doctor_id, data.date>>, data.start)}
    IN  IF data.user_id \in slot_users
        THEN HTTPException(400, "User already booked")
        ELSE IF Cardinality(slot_users) >= Capacity
        THEN HTTPException(400, "Slot full")
        ELSE Ok("Slot booked")

book_slot_capacity(data) ==
    LET tried == book_slot_capacity_try(data)
        item  == BookingItem(data) @@ [ttl |-> Expiry(data.date)]
    IN  /\ bookings' = IF tried.status = 200 THEN PutItem(bookings, item) ELSE bookings
        /\ last' = [op |-> "book", args |-> data, resp |-> CatchAll(tried)]
        /\ UNCHANGED <<availability, slot_history, authVars, vaultVars, chatVars, restVars>>

cancel_slot_capacity(data) ==
    /\ bookings' = DeleteItem(bookings, <<data.doctor_id, data.date>>, <<data.start, data.user_id>>)
    /\ last' = [op |-> "cancel", args |-> data, resp |-> Ok("Booking cancelled")]
    /\ UNCHANGED <<availability, slot_history, authVars, vaultVars, chatVars, restVars>>

get_available_slots_capacity_result(data) ==
    LET default_slots == {i \in availability : i.PK = <<data.doctor_id, Weekday(data.date)>>}
        booked(start) == {i.user_id : i \in {b \in bookings :
                              b.PK = <<data.doctor_id, data.date>> /\ b.SK[1] = start}}
    IN  {[start |-> s.SK[1], end |-> s.SK[2],
          booked |-> Cardinality(booked(s.SK[1])),
          available |-> Capacity - Cardinality(booked(s.SK[1]))] : s \in default_slots}

get_available_slots_capacity(data) ==
    /\ last' = [op |-> "available", args |-> data,
                resp |-> OkBody(get_available_slots_capacity_result(data))]
    /\ UNCHANGED <<bookVars, slot_history, authVars, vaultVars, chatVars, restVars>>

BookCapacity      == \E data \in BookSlotInputs : book_slot_capacity(data)
CancelCapacity    == \E data \in BookSlotInputs : cancel_slot_capacity(data)
AvailableCapacity == \E data \in AvailableSlotsRequests : get_available_slots_capacity(data)

IdleAuth  == /\ users = {} /\ doctors = {} /\ auth_tokens = {}
             /\ issued = {} /\ retired = {}
IdleBook  == bookings = {} /\ availability = {} /\ slot_history = <<>>
IdleVault == objects = {}
IdleChat  == chat_table = {} /\ now = 0
IdleDocs  == documents = {}
IdlePay   == payments = {} /\ payment_writes = <<>> /\ gateway = <<>>
IdleRest  == IdleDocs /\ IdlePay /\ inflight = {}

InitCapacity ==
    /\ bookings = {}
    /\ slot_history = <<>>
    /\ availability = {TemplateItem(r, TRUE) : r \in Ranges}
    /\ IdleAuth /\ IdleVault /\ IdleChat /\ IdleRest
    /\ last = NoRequest

NextCapacity == BookCapacity \/ CancelCapacity \/ AvailableCapacity

SpecCapacity == InitCapacity /\ [][NextCapacity]_vars

\* C1: capacity-model book: on a slot with fewer than 5 bookings a patient not yet
\* booked succeeds and adds exactly one Booking record; on a slot holding 5 a
\* further patient fails with 400 'Slot full' and adds nothing; a patient who
\* holds a booking of the slot fails with 400 'User already booked' and adds
\* nothing.
C1_CapacityBookOutcomes ==
    [][last'.op = "book" =>
        LET data == last'.args
            slot_users == {i.user_id : i \in QueryBookings(<<data.doctor_id, data.date>>, data.start)}
        IN  IF data.user_id \in slot_users
            THEN /\ last'.resp.status = 400
                 /\ last'.resp.detail = "User already booked"
                 /\ bookings' = bookings
            ELSE IF Cardinality(slot_users) >= 5
            THEN /\ last'.resp.status = 400
                 /\ last'.resp.detail = "Slot full"
                 /\ bookings' = bookings
            ELSE /\ last'.resp.status = 200
                 /\ Cardinality(bookings') = Cardinality(bookings) + 1
                 /\ bookings \subseteq bookings'
    ]_vars

\* ---- the capacity model, requests interleaved ----
\* A book request is two steps, the query of the slot's bookings and, on what
\* the query returned, the checks and the put_item; other requests run between
\* the two. The slot is the 10:00 slot of date 1, one booking short of full.
ConcurrentSlot == [doctor_id |-> Doctor, date |-> 1, start |-> "10:00"]
EarlyPatients == 1 .. (Capacity - 1)
\* the patients that ask: one that holds a booking, and those that hold none
ConcurrentPatients == {1} \cup (Patients \ EarlyPatients)
ConcurrentInputs ==
    {data \in BookSlotInputs : /\ data.date = ConcurrentSlot.date
                               /\ data.start = ConcurrentSlot.start
                               /\ data.user_id \in ConcurrentPatients}

\* lines 44-47: the query, and `users`, the user ids it returned
book_slot_query(data) ==
    /\ ~ \E r \in inflight : r.data.user_id = data.user_id
    /\ inflight' = inflight \cup
          {[data |-> data,
            users |-> {i.user_id : i \in QueryBookings(<<data.doctor_id, data.date>>,
                                                       data.start)}]}
    /\ last' = [op |-> "book_query", args |-> data, resp |-> Ok("")]
    /\ UNCHANGED <<bookVars, slot_history, authVars, vaultVars, chatVars, docVars,
                   payVars>>

\* lines 49-52: the checks, made on the users the query returned
AdmittedNow(r) ==
    LET users_now == {i.user_id : i \in QueryBookings(<<r.data.doctor_id, r.data.date>>,
                                                      r.data.start)}
    IN  IF r.data.user_id \in users_now
        THEN HTTPException(400, "User already booked")
        ELSE IF Cardinality(users_now) >= Capacity
        THEN HTTPException(400, "Slot full")
        ELSE Ok("Slot booked")
Admitted(r) ==
    IF r.data.user_id \in r.users
    THEN HTTPException(400, "User already booked")
    ELSE IF Cardinality(r.users) >= Capacity
    THEN HTTPException(400, "Slot full")
    ELSE Ok("Slot booked")

\* lines 49-68: the rest of the request
book_slot_put(r) ==
    LET tried == Admitted(r)
        item  == BookingItem(r.data) @@ [ttl |-> Expiry(r.data.date)]
    IN  /\ bookings' = IF tried.status = 200 THEN PutItem(bookings, item) ELSE bookings
        /\ inflight' = inflight \ {r}
        /\ last' = [op |-> "book", args |-> r.data, resp |-> CatchAll(tried)]
        /\ UNCHANGED <<availability, slot_history, authVars, vaultVars, chatVars, docVars,
                       payVars>>

BookQuery == \E data \in ConcurrentInputs : book_slot_query(data)
BookPut   == \E r \in inflight : book_slot_put(r)

InitConcurrent ==
    /\ bookings = {BookingItem([doctor_id |-> ConcurrentSlot.doctor_id,
                                date |-> ConcurrentSlot.date,
                                start |-> ConcurrentSlot.start, user_id |-> p])
                      @@ [ttl |-> Expiry(ConcurrentSlot.date)] : p \in EarlyPatients}
    /\ slot_history = <<>>
    /\ availability = {TemplateItem(r, TRUE) : r \in Ranges}
    /\ IdleAuth /\ IdleVault /\ IdleChat /\ IdleRest
    /\ last = NoRequest

NextConcurrent == BookQuery \/ BookPut

SpecConcurrent == InitConcurrent /\ [][NextConcurrent]_vars

\* C17: a book request is decided on the bookings its query returned, whatever
\* other requests have written since: it succeeds and writes its record exactly
\* when the query showed fewer than 5 users, the patient not among them. Book
\* requests of distinct patients interleaved between query and write therefore
\* all succeed, and the slot holds more than 5 Booking records (the witness).
C17_DecidedOnStaleRead ==
    [][last'.op = "book" =>
          \E r \in inflight :
              /\ r.data = last'.args
              /\ inflight' = inflight \ {r}
              /\ IF r.data.user_id \notin r.users /\ Cardinality(r.users) < Capacity
                 THEN /\ last'.resp.status = 200
                      /\ \E b \in bookings' : /\ b.PK = <<r.data.doctor_id, r.data.date>>
                                              /\ b.SK = <<r.data.start, r.data.user_id>>
                      /\ bookings \subseteq bookings'
                 ELSE /\ last'.resp.status # 200
                      /\ bookings' = bookings
    ]_vars

\* C17 witness: the slot holds more than 5 Booking records, of distinct patients,
\* the last written by a request that returned success.
C17_Witness ==
    /\ last.op = "book"
    /\ last.resp.status = 200
    /\ Cardinality({b.user_id : b \in
            QueryBookings(<<ConcurrentSlot.doctor_id, ConcurrentSlot.date>>,
                          ConcurrentSlot.start)}) > Capacity

\* ---- the occupancy model: doctorBookings ----
NumOccPatients == 2
OccPatients == 1 .. NumOccPatients
OccBookSlotInputs ==
    [doctor_id : {Doctor}, date : Dates, start : Starts, user_id : OccPatients]

\* The body of book_slot's try block: what it raises or returns.
book_slot_occupancy_try(data) ==
    LET items == {i \in availability : i.PK = <<data.doctor_id, Weekday(data.date)>>}
        found == {i \in items : i.SK[1] = data.start /\ i.available}
    IN  IF found = {}
        THEN HTTPException(400, "Slot is unavailable or does not exist.")
        ELSE IF \E i \in QueryBookings(<<data.doctor_id, data.date>>, data.start) :
                    i.user_id = data.user_id
        THEN HTTPException(400, "User already booked this slot.")
        ELSE Ok("Slot booked successfully.")

\* The template item the loops of book_slot and cancel_slot stop at: the first
\* whose start is data.start (the template's entries have distinct starts).
MatchingSlot(items, start) == CHOOSE i \in items : i.SK[1] = start

book_slot_occupancy(data) ==
    LET tried == book_slot_occupancy_try(data)
        items == {i \in availability : i.PK = <<data.doctor_id, Weekday(data.date)>>}
        slot  == MatchingSlot({i \in items : i.available}, data.start)
    IN  /\ bookings' = IF tried.status = 200
                       THEN PutItem(bookings, BookingItem(data)) ELSE bookings
        /\ availability' = IF tried.status = 200
                           THEN PutItem(availability,
                                    [PK |-> slot.PK, SK |-> slot.SK, available |-> FALSE])
                           ELSE availability
        /\ slot_history' = IF tried.status = 200
                           THEN [slot_history EXCEPT ![<<data.date, data.start>>] = "held"]
                           ELSE slot_history
        /\ last' = [op |-> "book", args |-> data, resp |-> Reraise(tried)]
        /\ UNCHANGED <<authVars, vaultVars, chatVars, restVars>>

cancel_slot_occupancy(data) ==
    LET items == {i \in availability : i.PK = <<data.doctor_id, Weekday(data.date)>>}
        known == \E i \in items : i.SK[1] = data.start
        slot  == MatchingSlot(items, data.start)
    IN  /\ bookings' = DeleteItem(bookings, <<data.doctor_id, data.date>>,
                                  <<data.start, data.user_id>>)
        /\ availability' = IF known
                           THEN PutItem(availability,
                                    [PK |-> slot.PK, SK |-> slot.SK, available |-> TRUE])
                           ELSE availability
        /\ last' = [op |-> "cancel", args |-> data,
                    resp |-> CatchAll(Ok("Booking cancelled and slot released."))]
        /\ slot_history' = [slot_history EXCEPT ![<<data.date, data.start>>] =
                                IF @ = "fresh" THEN @ ELSE "released"]
        /\ UNCHANGED <<authVars, vaultVars, chatVars, restVars>>

get_available_slots_occupancy_result(data) ==
    LET slots == {i \in availability : i.PK = <<data.doctor_id, Weekday(data.date)>>}
    IN  {[start |-> s.SK[1], end |-> s.SK[2], available |-> s.available] : s \in slots}

get_available_slots_occupancy(data) ==
    /\ last' = [op |-> "available", args |-> data,
                resp |-> CatchAll(OkBody(get_available_slots_occupancy_result(data)))]
    /\ UNCHANGED <<bookVars, slot_history, authVars, vaultVars, chatVars, restVars>>

\* FetchBookingsRequest: id is a doctor id or a patient id (a patient p is named
\* by the string ToString(p)), days the number of days to look back from today.
Today == 8
LookBack == {0, 7, 8}
FetchBookingsRequests ==
    [id : {Doctor} \cup {ToString(p) : p \in OccPatients},
     type : {"doctor", "user", "admin"}, days : LookBack]

\* The body of fetch_bookings's try block: what it raises or returns.
fetch_bookings_try(data) ==
    IF data.type = "doctor"
    THEN OkBody(UNION {{b \in bookings : b.PK = <<data.id, Today - i>>}
                       : i \in 0 .. (data.days - 1)})
    ELSE IF data.type = "user"
    THEN OkBody({b \in bookings : /\ ToString(b.user_id) = data.id
                                  /\ Today - b.date <= data.days})
    ELSE HTTPException(400, "Invalid type: must be 'doctor' or 'user'")

fetch_bookings(data) ==
    /\ last' = [op |-> "fetch_bookings", args |-> data,
                resp |-> CatchAll(fetch_bookings_try(data))]
    /\ UNCHANGED <<bookVars, slot_history, authVars, vaultVars, chatVars, restVars>>

BookOccupancy      == \E data \in OccBookSlotInputs : book_slot_occupancy(data)
FetchBookings      == \E data \in FetchBookingsRequests : fetch_bookings(data)
CancelOccupancy    == \E data \in OccBookSlotInputs : cancel_slot_occupancy(data)
AvailableOccupancy == \E data \in AvailableSlotsRequests : get_available_slots_occupancy(data)

\* The doctor has set any of the ranges as the weekday's template (setSlots
\* writes each with available = True); no booking exists yet.
InitOccupancy ==
    /\ bookings = {}
    /\ slot_history = [s \in Dates \X Starts |-> "fresh"]
    /\ \E template \in SUBSET Ranges :
          availability = {TemplateItem(r, TRUE) : r \in template}
    /\ IdleAuth /\ IdleVault /\ IdleChat /\ IdleRest
    /\ last = NoRequest

NextOccupancy == BookOccupancy \/ CancelOccupancy \/ AvailableOccupancy

SpecOccupancy == InitOccupancy /\ [][NextOccupancy]_vars

\* The available flag of the template entry a slot (date, start) maps to.
SlotFlag(table, date, start) ==
    LET items == {i \in table : i.PK = <<Doctor, Weekday(date)>> /\ i.SK[1] = start}
    IN  \A i \in items : i.available

\* C2: occupancy-model book/cancel: while a slot is held (booked, no cancel request
\* since) every book request for it fails with 400 'Slot is unavailable...' and
\* changes nothing; a cancel request for a held slot leaves its template flag
\* true; and a book request for a slot whose last book/cancel request was a
\* cancel succeeds.
C2_OccupancyBookCancel ==
    [][LET data == last'.args
           slot == <<data.date, data.start>>
       IN  /\ (last'.op = "book" /\ slot_history[slot] = "held") =>
                 /\ last'.resp.status = 400
                 /\ last'.resp.detail = "Slot is unavailable or does not exist."
                 /\ bookings' = bookings
           /\ (last'.op = "cancel" /\ slot_history[slot] = "held") =>
                 SlotFlag(availability', data.date, data.start)
           /\ (last'.op = "book" /\ slot_history[slot] = "released") =>
                 last'.resp.status = 200
    ]_vars

\* C8 (capacity model): a fetch of the available slots of a (doctor, date) with
\* no Booking record reports booked = 0 and available = 5 for every template
\* entry of the weekday.
C8_CapacityFullWhenNoBookings ==
    (last.op = "available"
        /\ ~ \E b \in bookings : b.PK = <<last.args.doctor_id, last.args.date>>) =>
        /\ \A r \in last.resp.body : r.booked = 0 /\ r.available = 5
        /\ {<<r.start, r.end>> : r \in last.resp.body}
             = {i.SK : i \in {a \in availability :
                          a.PK = <<last.args.doctor_id, Weekday(last.args.date)>>}}

\* C8 (occupancy model): a fetch of the available slots of a (doctor, date) with
\* no Booking record reports available = true for every template entry of the
\* weekday, whatever was booked or cancelled on other dates.
C8_OccupancyFullWhenNoBookings ==
    (last.op = "available"
        /\ ~ \E b \in bookings : b.PK = <<last.args.doctor_id, last.args.date>>) =>
        /\ last.resp.status = 200
        /\ \A r \in last.resp.body : r.available = TRUE
        /\ {<<r.start, r.end>> : r \in last.resp.body}
             = {i.SK : i \in {a \in availability :
                          a.PK = <<last.args.doctor_id, Weekday(last.args.date)>>}}

\* Bookings of the 10:00 slot are made and cancelled, and fetched by doctors and
\* patients.
FetchBookSlotInputs == {data \in OccBookSlotInputs : data.start = "10:00"}
BookFetch   == \E data \in FetchBookSlotInputs : book_slot_occupancy(data)
CancelFetch == \E data \in FetchBookSlotInputs : cancel_slot_occupancy(data)

InitFetch ==
    /\ bookings = {}
    /\ slot_history = [s \in Dates \X Starts |-> "fresh"]
    /\ availability = {TemplateItem(r, TRUE) : r \in Ranges}
    /\ IdleAuth /\ IdleVault /\ IdleChat /\ IdleRest
    /\ last = NoRequest

NextFetch == BookFetch \/ CancelFetch \/ FetchBookings

SpecFetch == InitFetch /\ [][NextFetch]_vars

\* C12: a fetch-bookings request whose type is neither 'doctor' nor 'user' fails
\* with the declared 400, not with another status.
C12_InvalidRoleIsInvalidInput ==
    [][(last'.op = "fetch_bookings" /\ last'.args.type \notin {"doctor", "user"}) =>
          last'.resp.status = 400
    ]_vars

\* C30: for every lookback window of N days and every stored Booking record of
\* doctor d and patient u, fetch-bookings as doctor d returns the record exactly
\* when fetch-bookings as user u returns it.
C30_FetchRoleConsistency ==
    \A days \in LookBack : \A b \in bookings :
        (b \in fetch_bookings_try(
                  [id |-> b.doctor_id, type |-> "doctor", days |-> days]).body)
            <=> (b \in fetch_bookings_try(
                  [id |-> ToString(b.user_id), type |-> "user", days |-> days]).body)

\* C25: in the occupancy model, with requests processed one at a time, no
\* (doctor, date, start) ever has more than one Booking record.
C25_SingleOccupancy ==
    \A date \in Dates, start \in Starts :
        Cardinality({b \in bookings : b.PK = <<Doctor, date>> /\ b.SK[1] = start}) <= 1

\* C22: the Booking record a successful book request writes, in the capacity
\* model and in the occupancy model, has a ttl attribute equal to the booked
\* date plus 7 days.
C22_BookingCarriesTtl ==
    [][(last'.op = "book" /\ last'.resp.status = 200) =>
          \E i \in bookings' :
             /\ i.PK = <<last'.args.doctor_id, last'.args.date>>
             /\ i.SK = <<last'.args.start, last'.args.user_id>>
             /\ "ttl" \in DOMAIN i
             /\ i.ttl = last'.args.date + 7
    ]_vars

(***************************************************************************)
(* Authentication                                                          *)
(***************************************************************************)
TokenLifetime == 900

Emails       == {"a@x", "b@x"}
\* The emails doctor accounts are asked for ("a@x" is asked for in both tables).
DoctorEmails == {"a@x"}
Passwords    == {"pw1", "pw2"}
Salts        == {"s1", "s2"}

UserSignups   == [username : {"Asha"}, email : Emails, password : Passwords]
DoctorSignups == [doctorname : {"Dr Asha"}, email : DoctorEmails, password : Passwords]
Logins        == [email : Emails, password : Passwords]

\* Two passwords of 73 bytes that differ in the last byte, and their first 72.
Key72 == "kkkkkkkkkkkkkkkkkkkkkkkkkkkkkkkkkkkkkkkkkkkkkkkkkkkkkkkkkkkkkkkkkkkkkkkk"
LongPasswords == {"kkkkkkkkkkkkkkkkkkkkkkkkkkkkkkkkkkkkkkkkkkkkkkkkkkkkkkkkkkkkkkkkkkkkkkkka", "kkkkkkkkkkkkkkkkkkkkkkkkkkkkkkkkkkkkkkkkkkkkkkkkkkkkkkkkkkkkkkkkkkkkkkkkb"}
\* bcrypt reads the first 72 bytes of the password and no more.
Truncate72(password) == IF password \in LongPasswords THEN Key72 ELSE password

\* bcrypt.hashpw(password, salt): the digest names its salt and is a one-way
\* image of (salt, the first 72 bytes of the password).
bcrypt_hashpw(password, salt) == [salt |-> salt, of |-> Truncate72(password)]
\* hash_password draws the salt with bcrypt.gensalt().
hash_password(password, salt) == bcrypt_hashpw(password, salt)
\* bcrypt.checkpw hashes `plain` with the salt of `hashed` and compares.
verify_password(plain, hashed) == bcrypt_hashpw(plain, hashed.salt) = hashed

\* The records user signup and doctor signup leave: no list attribute yet.
SignedUpUser(email) ==
    [username |-> "Asha", email |-> email,
     password |-> hash_password("pw1", "s1"), emailVerified |-> FALSE]
SignedUpDoctor(email) ==
    [email |-> email, doctorname |-> "Dr Asha",
     password |-> hash_password("pw1", "s1"), emailVerified |-> FALSE,
     onboarded |-> FALSE]

\* table.get_item(Key={"email": email}).get("Item"): the items under the key.
GetItem(table, email) == {i \in table : i.email = email}
ItemExistsNever(table, email) == FALSE
ItemExists(table, email) == GetItem(table, email) # {}
TheItem(table, email) == CHOOSE i \in table : i.email = email
PutByEmail(table, item) == {i \in table : i.email # item.email} \cup {item}

\* auth_tokens_table, keyed by (email, purpose).
GetToken(email, purpose) ==
    {t \in auth_tokens : t.email = email /\ t.purpose = purpose}
PutTokenBeside(table, item) == table \cup {item}
PutToken(table, item) ==
    {t \in table : ~(t.email = item.email /\ t.purpose = item.purpose)} \cup {item}
DeleteTokenKeep(table, email, purpose) == table
DeleteToken(table, email, purpose) ==
    {t \in table : ~(t.email = email /\ t.purpose = purpose)}

\* str(uuid.uuid4()): a token no earlier call has returned.
uuid4 == Cardinality(issued) + 1

\* The token record a signup writes, with what that does to the history: the
\* token it overwrites, if any, is retired.
IssueToken(email, purpose) ==
    /\ auth_tokens' = PutToken(auth_tokens,
            [email |-> email, purpose |-> purpose, token |-> uuid4,
             ttl |-> now + TokenLifetime])
    /\ issued' = issued \cup {uuid4}
    /\ retired' = retired \cup
            {<<t.email, t.purpose, t.token, "replaced">> : t \in GetToken(email, purpose)}

\* send_brevo_email: raises HTTPException(500) when the relay fails.
send_brevo_email_logged(delivered, done) == done
send_brevo_email(delivered, done) ==
    IF delivered THEN done ELSE HTTPException(500, "Failed to send email")

\* `mail` is what became of the verification email: "not_sent", "sent", "failed".
user_signup(data, salt, delivered) ==
    IF ItemExists(users, data.email)
    THEN /\ last' = [op |-> "user_signup", args |-> data, mail |-> "not_sent",
                     resp |-> Reraise(HTTPException(400, "Email already exists"))]
         /\ UNCHANGED <<authVars, bookVars, slot_history, vaultVars, chatVars, restVars>>
    ELSE /\ users' = PutByEmail(users,
                [username |-> data.username, email |-> data.email,
                 password |-> hash_password(data.password, salt),
                 emailVerified |-> FALSE])
         /\ IssueToken(data.email, "email_verification")
         /\ last' = [op |-> "user_signup", args |-> data,
                     mail |-> IF delivered THEN "sent" ELSE "failed",
                     resp |-> Reraise(send_brevo_email(delivered,
                                         Ok("User registered successfully")))]
         /\ UNCHANGED <<doctors, bookVars, slot_history, vaultVars, chatVars, restVars>>

user_login_try(data) ==
    IF ~ ItemExists(users, data.email)
    THEN HTTPException(400, "User not found")
    ELSE LET user == TheItem(users, data.email)
         IN  IF ~ verify_password(data.password, user.password)
             THEN HTTPException(400, "Incorrect password")
             ELSE OkBody({[name |-> user.username, email |-> user.email]})

user_login(data) ==
    /\ last' = [op |-> "user_login", args |-> data, resp |-> Reraise(user_login_try(data))]
    /\ UNCHANGED <<authVars, bookVars, slot_history, vaultVars, chatVars, restVars>>

doctor_signup(data, salt, delivered) ==
    IF ItemExists(doctors, data.email)
    THEN /\ last' = [op |-> "doctor_signup", args |-> data,
                     resp |-> Reraise(HTTPException(400, "Email already registered"))]
         /\ UNCHANGED <<authVars, bookVars, slot_history, vaultVars, chatVars, restVars>>
    ELSE /\ doctors' = PutByEmail(doctors,
                [email |-> data.email, doctorname |-> data.doctorname,
                 password |-> hash_password(data.password, salt),
                 emailVerified |-> FALSE, onboarded |-> FALSE])
         /\ IssueToken(data.email, "email_verification")
         /\ last' = [op |-> "doctor_signup", args |-> data,
                     resp |-> Reraise(send_brevo_email(delivered,
                                 Ok("Doctor registered. Please complete profile setup.")))]
         /\ UNCHANGED <<users, bookVars, slot_history, vaultVars, chatVars, restVars>>

\* doctor["name"]: a KeyError unless the record has the attribute.
doctor_login_try(data) ==
    IF ~ ItemExists(doctors, data.email)
    THEN HTTPException(400, "Doctor not found")
    ELSE LET doctor == TheItem(doctors, data.email)
         IN  IF ~ verify_password(data.password, doctor.password)
             THEN HTTPException(400, "Incorrect password")
             ELSE IF "name" \in DOMAIN doctor
             THEN OkBody({[name |-> doctor.name, email |-> doctor.email]})
             ELSE PyException("KeyError: 'name'")

doctor_login(data) ==
    /\ last' = [op |-> "doctor_login", args |-> data,
                resp |-> Reraise(doctor_login_try(data))]
    /\ UNCHANGED <<authVars, bookVars, slot_history, vaultVars, chatVars, restVars>>

\* update_item(Key={"email": email}, "SET emailVerified = :v") on an existing item.
SetEmailVerified(table, email) ==
    {IF i.email = email THEN [i EXCEPT !.emailVerified = TRUE] ELSE i : i \in table}

verify_email(email, token) ==
    LET item == GetToken(email, "email_verification")
        args == [email |-> email, token |-> token]
    IN  IF item = {} \/ (\E t \in item : t.token # token)
        THEN /\ last' = [op |-> "verify_email", args |-> args,
                         resp |-> Reraise(HTTPException(400, "Invalid or expired token"))]
             /\ UNCHANGED <<authVars, bookVars, slot_history, vaultVars, chatVars, restVars>>
        ELSE IF ~ ItemExists(users, email) /\ ~ ItemExists(doctors, email)
        THEN /\ last' = [op |-> "verify_email", args |-> args,
                         resp |-> Reraise(HTTPException(404, "Email not found in any table"))]
             /\ UNCHANGED <<authVars, bookVars, slot_history, vaultVars, chatVars, restVars>>
        ELSE /\ users' = SetEmailVerified(users, email)
             /\ doctors' = SetEmailVerified(doctors, email)
             /\ auth_tokens' = DeleteToken(auth_tokens, email, "email_verification")
             /\ retired' = retired \cup {<<email, "email_verification", token, "consumed">>}
             /\ last' = [op |-> "verify_email", args |-> args,
                         resp |-> Reraise(Ok("Email verified successfully"))]
             /\ UNCHANGED <<issued, bookVars, slot_history, vaultVars, chatVars, restVars>>

UserSignup   == \E data \in UserSignups, salt \in Salts, delivered \in BOOLEAN :
                    user_signup(data, salt, delivered)
UserLogin    == \E data \in Logins : user_login(data)
DoctorSignup == \E data \in DoctorSignups, salt \in Salts, delivered \in BOOLEAN :
                    doctor_signup(data, salt, delivered)
DoctorLogin  == \E data \in Logins : doctor_login(data)
\* The caller presents a token some email was sent, or one never issued (0).
VerifyEmail  == \E email \in Emails, token \in issued \cup {0} : verify_email(email, token)

InitAuth ==
    /\ IdleAuth /\ IdleBook /\ IdleVault /\ IdleChat /\ IdleRest
    /\ last = NoRequest

NextAuth == UserSignup \/ UserLogin \/ DoctorSignup \/ DoctorLogin \/ VerifyEmail

SpecAuth == InitAuth /\ [][NextAuth]_vars

\* ---- login, with passwords of every kind ----
\* two passwords, a case variant of the first, and the two long ones
LoginPasswords == {"pw1", "Pw1", "pw2"} \cup LongPasswords
LoginSignup == \E password \in LoginPasswords, salt \in Salts, delivered \in BOOLEAN :
    user_signup([username |-> "Asha", email |-> "a@x", password |-> password],
                salt, delivered)
LoginLogin == \E email \in Emails, password \in LoginPasswords :
    user_login([email |-> email, password |-> password])

NextLogin == LoginSignup \/ LoginLogin

SpecLogin == InitAuth /\ [][NextLogin]_vars

\* C19: a user login for the record a signup with password p has just stored
\* succeeds when the supplied password is p and fails with 400 'Incorrect
\* password' for every other supplied password; a login for an email with no
\* User record fails with 400 'User not found'.
C19_LoginPasswordCheck ==
    [][/\ (/\ last'.op = "user_login"
           /\ last.op = "user_signup" /\ last.mail # "not_sent"
           /\ last'.args.email = last.args.email) =>
             IF last'.args.password = last.args.password
             THEN last'.resp.status = 200
             ELSE /\ last'.resp.status = 400
                  /\ last'.resp.detail = "Incorrect password"
       /\ (last'.op = "user_login" /\ ~ \E u \in users : u.email = last'.args.email) =>
             /\ last'.resp.status = 400
             /\ last'.resp.detail = "User not found"
    ]_vars

\* C3: a user signup for an email that has a User record fails with 400 'Email
\* already exists' and leaves the users table, the record's password hash
\* included, as it was.
C3_SignupNeverOverwrites ==
    [][(last'.op = "user_signup" /\ \E u \in users : u.email = last'.args.email) =>
          /\ last'.resp.status = 400
          /\ last'.resp.detail = "Email already exists"
          /\ users' = users
    ]_vars

\* C3 witness: a signup was refused for an email whose stored hash was made from
\* another password than the one the refused request carried.
C3_Witness ==
    /\ last.op = "user_signup"
    /\ last.resp.status = 400
    /\ \E u \in users : /\ u.email = last.args.email
                        /\ ~ verify_password(last.args.password, u.password)

\* C4: a verify request presenting an email_verification token that a successful
\* verify has consumed, or that a later issuance for the email has replaced,
\* fails with 400 'Invalid or expired token' and changes no record.
C4_RetiredTokenRejected ==
    [][(/\ last'.op = "verify_email"
        /\ \E r \in retired : /\ r[1] = last'.args.email
                              /\ r[2] = "email_verification"
                              /\ r[3] = last'.args.token) =>
          /\ last'.resp.status = 400
          /\ last'.resp.detail = "Invalid or expired token"
          /\ UNCHANGED <<users, doctors, auth_tokens>>
    ]_vars

\* C4 witness: a verify of a consumed token was refused (the second of two verify
\* calls with the same email and token), a replaced token having been seen too.
C4_Witness ==
    /\ last.op = "verify_email"
    /\ last.resp.status = 400
    /\ <<last.args.email, "email_verification", last.args.token, "consumed">> \in retired
    /\ \E r \in retired : r[4] = "replaced"
    /\ \E u \in users : u.email = last.args.email /\ u.emailVerified

\* C9: a doctor login with the email and password of a record doctor signup
\* created succeeds and returns the record's name and email.
C9_DoctorLoginSucceeds ==
    (/\ last.op = "doctor_login"
     /\ \E d \in doctors : /\ d.email = last.args.email
                           /\ verify_password(last.args.password, d.password)) =>
        /\ last.resp.status = 200
        /\ \E d \in doctors : /\ d.email = last.args.email
                              /\ last.resp.body = {[name |-> d.doctorname, email |-> d.email]}

\* C4, the replaced case: a verify of a token that a later issuance replaced was
\* refused.
C4_ReplacedWitness ==
    /\ last.op = "verify_email"
    /\ last.resp.status = 400
    /\ <<last.args.email, "email_verification", last.args.token, "replaced">> \in retired

\* C18: a user signup whose verification email cannot be sent fails with 500,
\* and the User record and the email_verification token it wrote stay stored;
\* a later signup with the same email fails with 400 'Email already exists'.
C18_FailedEmailNoRollback ==
    [][/\ (last'.op = "user_signup" /\ last'.mail = "failed") =>
             /\ last'.resp.status = 500
             /\ \E u \in users' : /\ u.email = last'.args.email
                                  /\ u \notin users
                                  /\ verify_password(last'.args.password, u.password)
             /\ \E t \in auth_tokens' : /\ t.email = last'.args.email
                                        /\ t.purpose = "email_verification"
                                        /\ t.token \notin issued
       /\ (last'.op = "user_signup" /\ last.op = "user_signup" /\ last.mail = "failed"
              /\ last'.args.email = last.args.email) =>
             /\ last'.resp.status = 400
             /\ last'.resp.detail = "Email already exists"
             /\ UNCHANGED <<users, auth_tokens>>
    ]_vars

\* C18 witness: a signup was refused with 'Email already exists' for an email
\* whose only signup had failed to send its email: the record is unverified and
\* its first token is still stored.
C18_Witness ==
    /\ last.op = "user_signup"
    /\ last.resp.status = 400
    /\ issued = {1}
    /\ retired = {}
    /\ \E t \in auth_tokens : t.email = last.args.email /\ t.token = 1
    /\ \E u \in users : u.email = last.args.email /\ ~ u.emailVerified

\* C18, the failing request itself: it answered 500 and left record and token.
C18_FailedWitness ==
    /\ last.op = "user_signup"
    /\ last.mail = "failed"
    /\ last.resp.status = 500
    /\ \E u \in users : u.email = last.args.email
    /\ \E t \in auth_tokens : t.email = last.args.email

\* ---- password reset, and the lifetime of tokens ----
MaxTokens   == 3
TickSeconds == 600
MaxTicks    == 3

PasswordResetRequests == [email : Emails]
\* The caller presents a token some email was sent, or one never issued (0).
PasswordResetConfirms(tokens) ==
    [email : {"a@x"}, token : tokens \cup {0}, new_password : {"pw2"}]

\* update_item(Key={"email": email}, "SET password = :p") on an existing item.
SetPassword(table, email, hashed) ==
    {IF i.email = email THEN [i EXCEPT !.password = hashed] ELSE i : i \in table}

\* request_password_reset has no try block: what it raises reaches the caller.
\* The token is stored before the email is sent.
request_password_reset(data, delivered) ==
    IF ~ ItemExists(users, data.email) /\ ~ ItemExists(doctors, data.email)
    THEN /\ last' = [op |-> "request_password_reset", args |-> data,
                     resp |-> HTTPException(404, "Email not registered")]
         /\ UNCHANGED <<authVars, bookVars, slot_history, vaultVars, chatVars, restVars>>
    ELSE /\ IssueToken(data.email, "password_reset")
         /\ last' = [op |-> "request_password_reset", args |-> data,
                     resp |-> send_brevo_email(delivered,
                                  Ok("Password reset link sent to your email"))]
         /\ UNCHANGED <<users, doctors, bookVars, slot_history, vaultVars, chatVars,
                        restVars>>

\* reset_password has no try block either. The ttl of the item is not read.
reset_password(data, salt) ==
    LET item == GetToken(data.email, "password_reset")
        hashed == hash_password(data.new_password, salt)
    IN  IF item = {} \/ (\E t \in item : t.token # data.token)
        THEN /\ last' = [op |-> "reset_password", args |-> data,
                         resp |-> HTTPException(400, "Invalid or expired token")]
             /\ UNCHANGED <<authVars, bookVars, slot_history, vaultVars, chatVars, restVars>>
        ELSE IF ItemExists(users, data.email)
        THEN /\ users' = SetPassword(users, data.email, hashed)
             /\ auth_tokens' = DeleteToken(auth_tokens, data.email, "password_reset")
             /\ retired' = retired \cup
                    {<<data.email, "password_reset", data.token, "consumed">>}
             /\ last' = [op |-> "reset_password", args |-> data,
                         resp |-> Ok("Password reset successfully")]
             /\ UNCHANGED <<doctors, issued, bookVars, slot_history, vaultVars, chatVars,
                            restVars>>
        ELSE IF ItemExists(doctors, data.email)
        THEN /\ doctors' = SetPassword(doctors, data.email, hashed)
             /\ auth_tokens' = DeleteToken(auth_tokens, data.email, "password_reset")
             /\ retired' = retired \cup
                    {<<data.email, "password_reset", data.token, "consumed">>}
             /\ last' = [op |-> "reset_password", args |-> data,
                         resp |-> Ok("Password reset successfully")]
             /\ UNCHANGED <<users, issued, bookVars, slot_history, vaultVars, chatVars,
                            restVars>>
        ELSE /\ last' = [op |-> "reset_password", args |-> data,
                         resp |-> HTTPException(404, "Email not found")]
             /\ UNCHANGED <<authVars, bookVars, slot_history, vaultVars, chatVars, restVars>>

\* The store's time-to-live expiry: an item whose ttl instant has passed is
\* deleted by the store at some later moment of the store's choosing; until
\* then get_item returns it.
ttl_expiry(t) ==
    /\ t.ttl < now
    /\ auth_tokens' = DeleteToken(auth_tokens, t.email, t.purpose)
    /\ retired' = retired \cup {<<t.email, t.purpose, t.token, "expired">>}
    /\ last' = [op |-> "ttl_expiry", args |-> [email |-> t.email]]
    /\ UNCHANGED <<users, doctors, issued, bookVars, slot_history, vaultVars, chatVars,
                   restVars>>

Tick ==
    /\ now + TickSeconds <= MaxTicks * TickSeconds
    /\ now' = now + TickSeconds
    /\ last' = [op |-> "tick", args |-> [email |-> ""]]
    /\ UNCHANGED <<authVars, bookVars, slot_history, vaultVars, chat_table, restVars>>

ResetSignup == \E delivered \in BOOLEAN :
    /\ Cardinality(issued) < MaxTokens
    /\ user_signup([username |-> "Asha", email |-> "a@x", password |-> "pw1"],
                   "s1", delivered)
RequestPasswordReset == \E data \in PasswordResetRequests, delivered \in BOOLEAN :
    /\ Cardinality(issued) < MaxTokens
    /\ request_password_reset(data, delivered)
ResetPassword == \E data \in PasswordResetConfirms(issued) : reset_password(data, "s2")
ResetVerifyEmail == \E token \in issued \cup {0} : verify_email("a@x", token)
TtlExpiry == \E t \in auth_tokens : ttl_expiry(t)

InitReset ==
    /\ IdleAuth /\ IdleBook /\ IdleVault /\ IdleChat /\ IdleRest
    /\ last = NoRequest

NextReset == ResetSignup \/ RequestPasswordReset \/ ResetPassword \/ ResetVerifyEmail
                \/ TtlExpiry \/ Tick

SpecReset == InitReset /\ [][NextReset]_vars

\* C14: the token store holds at most one token per (email, purpose); a
\* confirm-reset presenting a token that a later reset request replaced fails
\* with 400 'Invalid or expired token' and changes no password; a confirm-reset
\* presenting the token the latest request stored succeeds and sets the password.
C14_OneLiveToken ==
    [][/\ \A t1, t2 \in auth_tokens' :
             (t1.email = t2.email /\ t1.purpose = t2.purpose) => t1 = t2
       /\ (/\ last'.op = "reset_password"
           /\ <<last'.args.email, "password_reset", last'.args.token, "replaced">>
                 \in retired) =>
             /\ last'.resp.status = 400
             /\ last'.resp.detail = "Invalid or expired token"
             /\ users' = users /\ doctors' = doctors
       /\ (/\ last'.op = "reset_password"
           /\ \E t \in auth_tokens : /\ t.email = last'.args.email
                                     /\ t.purpose = "password_reset"
                                     /\ t.token = last'.args.token) =>
             /\ last'.resp.status = 200
             /\ \A u \in users' : u.email = last'.args.email =>
                   verify_password(last'.args.new_password, u.password)
             /\ ~ \E t \in auth_tokens' : /\ t.email = last'.args.email
                                          /\ t.purpose = "password_reset"
    ]_vars

\* C14 witness: of two reset requests for the same email the second token was
\* confirmed and set the password, the first token having been replaced.
C14_Witness ==
    /\ last.op = "reset_password"
    /\ last.resp.status = 200
    /\ \E r \in retired : /\ r[1] = last.args.email /\ r[2] = "password_reset"
                          /\ r[4] = "replaced" /\ r[3] < last.args.token
    /\ \E u \in users : /\ u.email = last.args.email
                        /\ verify_password("pw2", u.password)

\* C15: a verify-email or confirm-reset request presenting a stored token whose
\* ttl instant has passed fails with 400 and changes no user or doctor record.
C15_ExpiredTokenRejected ==
    [][(/\ last'.op \in {"verify_email", "reset_password"}
        /\ \E t \in auth_tokens :
              /\ t.email = last'.args.email
              /\ t.token = last'.args.token
              /\ t.purpose = (IF last'.op = "verify_email" THEN "email_verification"
                              ELSE "password_reset")
              /\ t.ttl < now) =>
          /\ last'.resp.status = 400
          /\ users' = users /\ doctors' = doctors
    ]_vars

\* ---- one email in both stores ----
\* a@x signs up as a user, as a doctor or as both, asks for a password reset and
\* confirms it; logins of both kinds follow.
BothUserSignup ==
    /\ Cardinality(issued) < MaxTokens
    /\ user_signup([username |-> "Asha", email |-> "a@x", password |-> "pw1"], "s1", TRUE)
BothDoctorSignup ==
    /\ Cardinality(issued) < MaxTokens
    /\ doctor_signup([doctorname |-> "Dr Asha", email |-> "a@x", password |-> "pw1"],
                     "s1", TRUE)
BothRequestPasswordReset ==
    /\ Cardinality(issued) < MaxTokens
    /\ request_password_reset([email |-> "a@x"], TRUE)

NextBoth == BothUserSignup \/ BothDoctorSignup \/ BothRequestPasswordReset
               \/ ResetPassword \/ UserLogin \/ DoctorLogin

SpecBoth == InitReset /\ [][NextBoth]_vars

\* C28: after a successful confirm-reset for an email, every account stored
\* under the email, User and Doctor alike, passes login's password check with
\* the new password and with no other password.
C28_ResetReachesEveryRecord ==
    [][(last'.op = "reset_password" /\ last'.resp.status = 200) =>
          /\ \A u \in users' : u.email = last'.args.email =>
                \A q \in Passwords :
                    verify_password(q, u.password) <=> q = last'.args.new_password
          /\ \A d \in doctors' : d.email = last'.args.email =>
                \A q \in Passwords :
                    verify_password(q, d.password) <=> q = last'.args.new_password
    ]_vars

\* C28, the logins after the reset: with the reset token consumed, the doctor
\* login with the new password is refused as incorrect while the user login
\* with it would succeed.
C28_DoctorRefusedAfterReset ==
    /\ last.op = "doctor_login"
    /\ last.args = [email |-> "a@x", password |-> "pw2"]
    /\ last.resp = HTTPException(400, "Incorrect password")
    /\ <<"a@x", "password_reset", 3, "consumed">> \in retired
    /\ user_login_try(last.args).status = 200

\* ---- confirm-reset requests that overlap ----
MaxRequests == 3
RequestIds  == 1 .. MaxRequests

\* The token a reset request for a@x stored.
ResetToken ==
    [email |-> "a@x", purpose |-> "password_reset", token |-> 1, ttl |-> TokenLifetime]

\* reset_password up to its get_item of the token (lines 365-366): the request
\* holds what the store returned.
reset_password_read(id, data) ==
    /\ inflight' = inflight \cup
          {[id |-> id, data |-> data, item |-> GetToken(data.email, "password_reset"),
            pc |-> "read", status |-> 0]}
    /\ last' = [op |-> "reset_password_read", args |-> data, resp |-> Ok("")]
    /\ UNCHANGED <<authVars, bookVars, slot_history, vaultVars, chatVars, docVars, payVars>>

\* reset_password from its token check on (lines 368-393), decided on the item
\* the request read; delete_item has no condition and succeeds whether or not
\* the token is still stored.
reset_password_write(r, salt) ==
    LET data == r.data
        hashed == hash_password(data.new_password, salt)
        done(resp) == (inflight \ {r}) \cup {[r EXCEPT !.pc = "done", !.status = resp.status]}
        invalid == HTTPException(400, "Invalid or expired token")
        missing == HTTPException(404, "Email not found")
        reset == Ok("Password reset successfully")
        consumed == {<<t.email, t.purpose, t.token, "consumed">> :
                        t \in GetToken(data.email, "password_reset")}
    IN  IF r.item = {} \/ (\E t \in r.item : t.token # data.token)
        THEN /\ inflight' = done(invalid)
             /\ last' = [op |-> "reset_password", args |-> data, resp |-> invalid]
             /\ UNCHANGED <<authVars, bookVars, slot_history, vaultVars, chatVars, docVars,
                            payVars>>
        ELSE IF ItemExists(users, data.email)
        THEN /\ users' = SetPassword(users, data.email, hashed)
             /\ auth_tokens' = DeleteToken(auth_tokens, data.email, "password_reset")
             /\ retired' = retired \cup consumed
             /\ inflight' = done(reset)
             /\ last' = [op |-> "reset_password", args |-> data, resp |-> reset]
             /\ UNCHANGED <<doctors, issued, bookVars, slot_history, vaultVars, chatVars,
                            docVars, payVars>>
        ELSE IF ItemExists(doctors, data.email)
        THEN /\ doctors' = SetPassword(doctors, data.email, hashed)
             /\ auth_tokens' = DeleteToken(auth_tokens, data.email, "password_reset")
             /\ retired' = retired \cup consumed
             /\ inflight' = done(reset)
             /\ last' = [op |-> "reset_password", args |-> data, resp |-> reset]
             /\ UNCHANGED <<users, issued, bookVars, slot_history, vaultVars, chatVars,
                            docVars, payVars>>
        ELSE /\ inflight' = done(missing)
             /\ last' = [op |-> "reset_password", args |-> data, resp |-> missing]
             /\ UNCHANGED <<authVars, bookVars, slot_history, vaultVars, chatVars, docVars,
                            payVars>>

ResetPasswordRead ==
    \E id \in RequestIds, data \in PasswordResetConfirms({ResetToken.token}) :
        /\ ~ \E r \in inflight : r.id = id
        /\ reset_password_read(id, data)
ResetPasswordWrite ==
    \E r \in inflight : r.pc = "read" /\ reset_password_write(r, "s2")

\* The user a@x has asked for a password reset and holds the token.
InitRace ==
    /\ users = {SignedUpUser("a@x")}
    /\ doctors = {}
    /\ auth_tokens = {ResetToken}
    /\ issued = {ResetToken.token}
    /\ retired = {}
    /\ IdleBook /\ IdleVault /\ IdleChat /\ IdleDocs /\ IdlePay
    /\ inflight = {}
    /\ last = NoRequest

NextRace == ResetPasswordRead \/ ResetPasswordWrite

SpecRace == InitRace /\ [][NextRace]_vars

\* C26: of the confirm-reset requests that present one issued password_reset
\* token, at most one returns success, also when the requests overlap.
C26_TokenSingleUse ==
    \A token \in issued :
        Cardinality({r \in inflight : /\ r.pc = "done"
                                      /\ r.status = 200
                                      /\ r.data.token = token}) <= 1

(***************************************************************************)
(* MediLocker                                                              *)
(***************************************************************************)
MaxBatch == 2

VaultEmails == {"a@x", "b@x"}
Filenames   == {"report.pdf", "scan.png"}
\* base64 contents; "Q" is no base64 text (one data character).
Contents    == {"QQ==", "Qg==", "Q"}

\* base64.b64decode(content): the bytes, or binascii.Error (<<>> here).
b64decode(content) ==
    CASE content = "QQ==" -> <<"A">>
      [] content = "Qg==" -> <<"B">>
      [] OTHER -> <<>>

FileUploadModels == [filename : Filenames, content : Contents]
Batches == UNION {[1 .. n -> FileUploadModels] : n \in 0 .. MaxBatch}
UploadRequests == [email : VaultEmails, files : Batches]
FileRequests   == [email : VaultEmails, filename : Filenames]

\* s3.list_objects_v2(Prefix=f"{email}/"), each Key.split("/")[-1]
ExistingFiles(store, email) == {o.Key[2] : o \in {x \in store : x.Key[1] = email}}

\* s3.put_object: the object replaces the one under the same key.
PutObject(store, key, bytes) == {o \in store : o.Key # key} \cup {[Key |-> key, Body |-> bytes]}

\* The loop of upload_file from file i on: the store it leaves and what it
\* raises or returns. existing_files is listed once, before the loop.
RECURSIVE UploadLoop(_, _, _, _, _)
UploadLoop(email, files, i, existing_files, store) ==
    IF i > Len(files)
    THEN [store |-> store, resp |-> Ok("Files uploaded successfully")]
    ELSE IF files[i].filename \in existing_files
    THEN [store |-> store,
          resp |-> HTTPException(409, "File with the same name already exists")]
    ELSE IF b64decode(files[i].content) = <<>>
    THEN [store |-> store, resp |-> HTTPException(400, "Invalid base64 encoding")]
    ELSE UploadLoop(email, files, i + 1, existing_files,
                    PutObject(store, <<email, files[i].filename>>,
                              b64decode(files[i].content)))

upload_file(body) ==
    LET done == UploadLoop(body.email, body.files, 1,
                           ExistingFiles(objects, body.email), objects)
    IN  /\ objects' = done.store
        /\ last' = [op |-> "upload", args |-> body, resp |-> CatchAll(done.resp)]
        /\ UNCHANGED <<bookVars, slot_history, authVars, chatVars, restVars>>

\* s3.head_object raises ClientError 404 for a missing key; the handler raises
\* HTTPException(404) from inside its outer try block.
delete_file_try(body) ==
    IF ~ \E o \in objects : o.Key = <<body.email, body.filename>>
    THEN HTTPException(404, "File not found")
    ELSE Ok("File deleted successfully")

delete_file(body) ==
    LET tried == delete_file_try(body)
    IN  /\ objects' = IF tried.status = 200
                      THEN {o \in objects : o.Key # <<body.email, body.filename>>}
                      ELSE objects
        /\ last' = [op |-> "delete", args |-> body, resp |-> CatchAll(tried)]
        /\ UNCHANGED <<bookVars, slot_history, authVars, chatVars, restVars>>

UploadFile == \E body \in UploadRequests : upload_file(body)
DeleteFile == \E body \in FileRequests : delete_file(body)

InitVault ==
    /\ IdleAuth /\ IdleBook /\ IdleVault /\ IdleChat /\ IdleRest
    /\ last = NoRequest

NextVault == UploadFile \/ DeleteFile

SpecVault == InitVault /\ [][NextVault]_vars

\* C5: an upload whose batch names a file already present under the patient's
\* prefix fails with 409 and leaves the store as it was.
C5_CollisionAbortsBatch ==
    [][(/\ last'.op = "upload"
        /\ \E i \in DOMAIN last'.args.files :
              last'.args.files[i].filename \in ExistingFiles(objects, last'.args.email)) =>
          /\ last'.resp.status = 409
          /\ objects' = objects
    ]_vars

\* C5, the store alone: such an upload leaves the store as it was.
C5_CollisionWritesNothing ==
    [][(/\ last'.op = "upload"
        /\ \E i \in DOMAIN last'.args.files :
              last'.args.files[i].filename \in ExistingFiles(objects, last'.args.email)) =>
          objects' = objects
    ]_vars

\* C29: an upload request leaves every object the store held as it was, and
\* when it reports success the object under each filename of the batch holds
\* the content of the first file of the batch with that filename.
C29_UploadNeverOverwrites ==
    [][last'.op = "upload" =>
          LET files == last'.args.files
              email == last'.args.email
          IN  /\ objects \subseteq objects'
              /\ last'.resp.status = 200 =>
                    \A i \in DOMAIN files : \A j \in DOMAIN files :
                        (i < j /\ files[i].filename = files[j].filename) =>
                            [Key |-> <<email, files[i].filename>>,
                             Body |-> b64decode(files[i].content)] \in objects'
    ]_vars

\* C7: a delete of a key that has no object fails with 404 and leaves the store
\* as it was.
C7_DeleteMissingIsNotFound ==
    [][(/\ last'.op = "delete"
        /\ ~ \E o \in objects : o.Key = <<last'.args.email, last'.args.filename>>) =>
          /\ last'.resp.status = 404
          /\ objects' = objects
    ]_vars

(***************************************************************************)
(* Doctors service: subscribe                                              *)
(***************************************************************************)
SubUsers   == {"u1@x", "u2@x"}
SubDoctors == {"d1@x", "d2@x"}
SubscribeRequests == [user_email : SubUsers \cup {"a@x"}, doctor_email : SubDoctors \cup {"a@x"}]

\* item.get(attr, [])
GetList(item, attr) == IF attr \in DOMAIN item THEN item[attr] ELSE <<>>
Elements(list) == {list[i] : i \in DOMAIN list}

\* update_item(Key={"email": email},
\*     "SET attr = list_append(if_not_exists(attr, :empty), :x)")
ListAppend(table, email, attr, x) ==
    {IF i.email = email
     THEN (attr :> Append(GetList(i, attr), x)) @@ i
     ELSE i : i \in table}

\* `if data.user_email in current_subscribers or
\*     data.doctor_email in current_subscribed_doctors`
AlreadyLinkedNever(doctor, user, data) == FALSE
AlreadyLinked(doctor, user, data) ==
    \/ data.user_email \in Elements(GetList(doctor, "subscribers"))
    \/ data.doctor_email \in Elements(GetList(user, "subscribed_doctors"))

subscribe_doctor(data) ==
    LET args == data
    IN  IF ~ ItemExists(doctors, data.doctor_email)
        THEN /\ last' = [op |-> "subscribe", args |-> args,
                         resp |-> Reraise(HTTPException(404, "Doctor not found"))]
             /\ UNCHANGED <<authVars, bookVars, slot_history, vaultVars, chatVars, restVars>>
        ELSE IF ~ ItemExists(users, data.user_email)
        THEN /\ last' = [op |-> "subscribe", args |-> args,
                         resp |-> Reraise(HTTPException(404, "User not found"))]
             /\ UNCHANGED <<authVars, bookVars, slot_history, vaultVars, chatVars, restVars>>
        ELSE IF AlreadyLinked(TheItem(doctors, data.doctor_email),
                              TheItem(users, data.user_email), data)
        THEN /\ last' = [op |-> "subscribe", args |-> args,
                         resp |-> Reraise(Ok("User is already subscribed to this doctor."))]
             /\ UNCHANGED <<authVars, bookVars, slot_history, vaultVars, chatVars, restVars>>
        ELSE /\ doctors' = ListAppend(doctors, data.doctor_email, "subscribers",
                                      data.user_email)
             /\ users' = ListAppend(users, data.user_email, "subscribed_doctors",
                                    data.doctor_email)
             /\ last' = [op |-> "subscribe", args |-> args,
                         resp |-> Reraise(Ok("User successfully subscribed to Doctor"))]
             /\ UNCHANGED <<auth_tokens, issued, retired, bookVars, slot_history,
                            vaultVars, chatVars, restVars>>

SubscribeDoctor == \E data \in SubscribeRequests : subscribe_doctor(data)

\* Some of the users and doctors have signed up; nobody is subscribed.
InitSubscribe ==
    /\ \E us \in SUBSET SubUsers : users = {SignedUpUser(e) : e \in us}
    /\ \E ds \in SUBSET SubDoctors : doctors = {SignedUpDoctor(e) : e \in ds}
    /\ auth_tokens = {} /\ issued = {} /\ retired = {}
    /\ IdleBook /\ IdleVault /\ IdleChat /\ IdleRest
    /\ last = NoRequest

NextSubscribe == SubscribeDoctor

SpecSubscribe == InitSubscribe /\ [][NextSubscribe]_vars

Occurrences(list, x) == Cardinality({i \in DOMAIN list : list[i] = x})

\* C6: after a subscribe(u, d) call that returns success, d's subscribers list
\* holds u exactly once and u's subscribed_doctors list holds d exactly once; a
\* call made when the link is already there returns the 'already subscribed'
\* message and modifies neither table; no list ever holds an entry twice.
C6_SubscribeIdempotent ==
    [][(last'.op = "subscribe" /\ last'.resp.status = 200) =>
          LET u == last'.args.user_email
              d == last'.args.doctor_email
              linked == \E x \in doctors : /\ x.email = d
                                           /\ u \in Elements(GetList(x, "subscribers"))
          IN  /\ \A x \in doctors' : x.email = d =>
                    Occurrences(GetList(x, "subscribers"), u) = 1
              /\ \A x \in users' : x.email = u =>
                    Occurrences(GetList(x, "subscribed_doctors"), d) = 1
              /\ \A x \in doctors' : \A e \in SubUsers :
                    Occurrences(GetList(x, "subscribers"), e) <= 1
              /\ \A x \in users' : \A e \in SubDoctors :
                    Occurrences(GetList(x, "subscribed_doctors"), e) <= 1
              /\ linked =>
                    /\ last'.resp.message = "User is already subscribed to this doctor."
                    /\ users' = users
                    /\ doctors' = doctors
    ]_vars

\* C6 witness: a repeated subscribe(u, d) returned the 'already subscribed'
\* message with both lists holding the link once, d having another subscriber.
C6_Witness ==
    /\ last.op = "subscribe"
    /\ last.resp.message = "User is already subscribed to this doctor."
    /\ \E x \in doctors : /\ x.email = last.args.doctor_email
                          /\ Occurrences(GetList(x, "subscribers"), last.args.user_email) = 1
                          /\ Len(GetList(x, "subscribers")) = 2
    /\ \E x \in users : /\ x.email = last.args.user_email
                        /\ Occurrences(GetList(x, "subscribed_doctors"),
                                       last.args.doctor_email) = 1

\* subscribe_doctor when the store fails its second update_item (line 295): the
\* doctor-side append (line 285) has been made, the exception is turned into a
\* 500 by `except Exception`, and nothing undoes the append.
subscribe_doctor_user_update_fails(data) ==
    /\ ItemExists(doctors, data.doctor_email)
    /\ ItemExists(users, data.user_email)
    /\ ~ AlreadyLinked(TheItem(doctors, data.doctor_email),
                       TheItem(users, data.user_email), data)
    /\ doctors' = ListAppend(doctors, data.doctor_email, "subscribers", data.user_email)
    /\ last' = [op |-> "subscribe", args |-> data,
                resp |-> Reraise(PyException("update_item failed"))]
    /\ UNCHANGED <<users, auth_tokens, issued, retired, bookVars, slot_history,
                   vaultVars, chatVars, restVars>>

SubscribeUserUpdateFails ==
    \E data \in SubscribeRequests : subscribe_doctor_user_update_fails(data)

NextSubscribeFaults == SubscribeDoctor \/ SubscribeUserUpdateFails

SpecSubscribeFaults == InitSubscribe /\ [][NextSubscribeFaults]_vars

\* C27: between requests, u is in d's subscribers list exactly when d is in u's
\* subscribed_doctors list, for every stored user u and doctor d.
C27_LinkSymmetry ==
    \A u \in users, d \in doctors :
        (u.email \in Elements(GetList(d, "subscribers")))
            <=> (d.email \in Elements(GetList(u, "subscribed_doctors")))

\* C27, the state after the retry: the retried request was answered 'already
\* subscribed' and the user's record still lacks the doctor.
C27_RetriedHalfLink ==
    /\ last.op = "subscribe"
    /\ last.resp.message = "User is already subscribed to this doctor."
    /\ \E u \in users, d \in doctors :
          /\ u.email = last.args.user_email /\ d.email = last.args.doctor_email
          /\ u.email \in Elements(GetList(d, "subscribers"))
          /\ d.email \notin Elements(GetList(u, "subscribed_doctors"))

(***************************************************************************)
(* Chat                                                                    *)
(***************************************************************************)
MaxMessageLen == 2

ChatUser   == "a@x"
\* The characters str.strip() removes, and the ones the model's messages use.
Whitespace == {" ", "\t", "\n"}
Chars      == {" ", "h"}
\* Messages are sequences of characters.
Messages   == UNION {[1 .. n -> Chars] : n \in 0 .. MaxMessageLen}

\* str.strip(): the text without its leading and trailing whitespace.
RECURSIVE LStrip(_)
LStrip(text) ==
    IF text # <<>> /\ Head(text) \in Whitespace THEN LStrip(Tail(text)) ELSE text
RECURSIVE RStrip(_)
RStrip(text) ==
    IF text # <<>> /\ text[Len(text)] \in Whitespace
    THEN RStrip(SubSeq(text, 1, Len(text) - 1)) ELSE text
Strip(text) == RStrip(LStrip(text))

\* str.lower() over the letters the retrieval answers use.
Lower(text) == [i \in DOMAIN text |-> IF text[i] = "N" THEN "n" ELSE text[i]]

\* `if not request.message.strip()`
MessageMissingIfEmpty(message) == message = <<>>
MessageMissing(message) == Strip(message) = <<>>

\* What the retrieval service does with a request: answers with a status and a
\* "response" text, or the call raises (timeout, connection error, no URL).
RagTexts == {<<>>, <<" ">>, <<"n", "o", "n", "e">>, <<"N", "o", "n", "e">>, <<"o", "k", " ">>}
RagOutcomes == [status : {200}, response : RagTexts]
                  \cup {[status |-> 500, response |-> <<"o", "k", " ">>],
                        [status |-> 0, response |-> <<>>]}

\* What the language-model backend does: answers 200 with a response, answers
\* another status, or the call raises a RequestException or something else.
LlmOutcomes == {"ok", "non200", "request_exception", "other_exception"}
LlmText == <<"l", "l", "m">>

\* call_llm_api: the 502 it raises for a non-200 answer is raised inside its own
\* try block and caught by its `except Exception`, which raises the 500.
call_llm_api(llm) ==
    CASE llm = "ok" -> OkBody({[text |-> LlmText]})
      [] llm = "non200" -> HTTPException(500, "Unknown error")
      [] llm = "request_exception" -> HTTPException(503, "LLM request failed")
      [] OTHER -> HTTPException(500, "Unknown error")

\* store_message: put_item under (email, timestamp in whole seconds); a storage
\* error is logged and swallowed.
store_message(table, stored, user_mail, user_message, bot_message) ==
    IF stored
    THEN {i \in table : ~(i.email = user_mail /\ i.timestamp = now)} \cup
            {[email |-> user_mail, timestamp |-> now,
              user_message |-> user_message, bot_message |-> bot_message]}
    ELSE table

ChatRequests == [user_id : {ChatUser}, message : Messages]

\* `if response.status_code == 200: rag_response = ...strip()` and
\* `if rag_response and rag_response.lower() != "none"`: the retrieval answer is
\* taken. A call that raised has no status (0) and is not taken.
RagAcceptedOn200(rag) == rag.status = 200
RagAccepted(rag) ==
    /\ rag.status = 200
    /\ Strip(rag.response) # <<>>
    /\ Lower(Strip(rag.response)) # <<"n", "o", "n", "e">>

\* The retrieval service was not called.
RagNotCalled == [status |-> -1, response |-> <<>>]

\* src/chat: the retrieval service first, then the language model. `calls` is
\* the sequence of history, upstream and storage calls the request made, `llm`
\* what the language-model backend did when it was called.
chat(request, rag, llm, stored) ==
    IF MessageMissing(request.message)
    THEN /\ last' = [op |-> "chat", args |-> request, calls |-> <<>>,
                     stored |-> FALSE, llm |-> "not_called",
                     rag |-> RagNotCalled,
                     resp |-> HTTPException(400, "Message is required")]
         /\ UNCHANGED <<chatVars, bookVars, slot_history, authVars, vaultVars, restVars>>
    ELSE LET rag_response == Strip(rag.response)
             accepted == RagAccepted(rag)
             answer == call_llm_api(llm)
         IN  IF accepted
             THEN /\ chat_table' = store_message(chat_table, stored, request.user_id,
                                                 request.message, rag_response)
                  /\ last' = [op |-> "chat", args |-> request,
                              calls |-> <<"get_chat_history", "rag", "store_message">>,
                              stored |-> stored, llm |-> "not_called", rag |-> rag,
                              resp |-> OkBody({[text |-> rag_response]})]
                  /\ UNCHANGED <<now, bookVars, slot_history, authVars, vaultVars, restVars>>
             ELSE IF answer.status = 200
             THEN /\ chat_table' = store_message(chat_table, stored, request.user_id,
                                                 request.message, LlmText)
                  /\ last' = [op |-> "chat", args |-> request,
                              calls |-> <<"get_chat_history", "rag", "llm", "store_message">>,
                              stored |-> stored, llm |-> llm, rag |-> rag,
                              resp |-> answer]
                  /\ UNCHANGED <<now, bookVars, slot_history, authVars, vaultVars, restVars>>
             ELSE /\ last' = [op |-> "chat", args |-> request,
                              calls |-> <<"get_chat_history", "rag", "llm">>,
                              stored |-> FALSE, llm |-> llm,
                              rag |-> rag,
                              resp |-> answer]
                  /\ UNCHANGED <<chatVars, bookVars, slot_history, authVars, vaultVars, restVars>>

\* build/ChatLambda: the language model alone.
chat_lambda(request, llm, stored) ==
    IF MessageMissing(request.message)
    THEN /\ last' = [op |-> "chat_lambda", args |-> request,
                     calls |-> <<>>, stored |-> FALSE, llm |-> "not_called",
                     resp |-> HTTPException(400, "Message is required")]
         /\ UNCHANGED <<chatVars, bookVars, slot_history, authVars, vaultVars, restVars>>
    ELSE LET answer == call_llm_api(llm)
         IN  IF answer.status = 200
             THEN /\ chat_table' = store_message(chat_table, stored, request.user_id,
                                                 request.message, LlmText)
                  /\ last' = [op |-> "chat_lambda", args |-> request,
                              calls |-> <<"get_chat_history", "llm", "store_message">>,
                              stored |-> stored, llm |-> llm,
                              resp |-> answer]
                  /\ UNCHANGED <<now, bookVars, slot_history, authVars, vaultVars, restVars>>
             ELSE /\ last' = [op |-> "chat_lambda", args |-> request,
                              calls |-> <<"get_chat_history", "llm">>,
                              stored |-> FALSE, llm |-> llm,
                              resp |-> answer]
                  /\ UNCHANGED <<chatVars, bookVars, slot_history, authVars, vaultVars, restVars>>

Chat == \E request \in ChatRequests, rag \in RagOutcomes, llm \in LlmOutcomes,
           stored \in BOOLEAN : chat(request, rag, llm, stored)
ChatLambda == \E request \in ChatRequests, llm \in LlmOutcomes, stored \in BOOLEAN :
                 chat_lambda(request, llm, stored)

InitChat ==
    /\ IdleAuth /\ IdleBook /\ IdleVault /\ IdleChat /\ IdleRest
    /\ last = NoRequest

\* The clock stands still in this specification: every turn is stored under the
\* same second.
NextChat == Chat \/ ChatLambda

SpecChat == InitChat /\ [][NextChat]_vars

\* C10: a chat request whose message is empty or all whitespace fails with 400
\* having made no history query, no retrieval or language-model call and no
\* history write.
C10_BlankMessageRejectedFirst ==
    [][(/\ last'.op \in {"chat", "chat_lambda"}
        /\ \A i \in DOMAIN last'.args.message : last'.args.message[i] \in Whitespace) =>
          /\ last'.resp.status = 400
          /\ last'.calls = <<>>
          /\ chat_table' = chat_table
    ]_vars

\* C10 witness: a whitespace-only message of two characters was refused after
\* earlier turns had been stored.
C10_Witness ==
    /\ last.op = "chat"
    /\ Len(last.args.message) = 2
    /\ \A i \in DOMAIN last.args.message : last.args.message[i] \in Whitespace
    /\ last.resp.status = 400
    /\ chat_table # {}

\* C13: when the language model is called, a non-200 answer fails the turn with
\* 502, a transport-level failure with 503 and any other failure with 500.
C13_LlmErrorMapping ==
    [][(last'.op \in {"chat", "chat_lambda"} /\ last'.llm # "not_called") =>
          /\ last'.llm = "non200" => last'.resp.status = 502
          /\ last'.llm = "request_exception" => last'.resp.status = 503
          /\ last'.llm = "other_exception" => last'.resp.status = 500
    ]_vars

\* C24: a chat turn whose put_item succeeded leaves every entry the log held in
\* place and adds one, so that the log grows by one entry per persisted turn,
\* whatever the time between two turns.
C24_ChatLogAppendOnly ==
    [][(last'.op \in {"chat", "chat_lambda"} /\ last'.stored) =>
          /\ chat_table \subseteq chat_table'
          /\ Cardinality(chat_table') = Cardinality(chat_table) + 1
    ]_vars

\* C21: in a src/chat turn with a non-blank message the language model is called
\* exactly when the retrieval call gave no accepted answer (status 200 and a
\* stripped response that is neither empty nor "none" in any letter case); an
\* accepted answer is the text returned, with status 200; and a retrieval call
\* that failed or raised never fails the turn: then the turn's response is the
\* language model's.
C21_RetrievalFirst ==
    [][(last'.op = "chat" /\ ~ MessageMissing(last'.args.message)) =>
          LET rag == last'.rag
              text == Strip(rag.response)
              taken == /\ rag.status = 200
                       /\ text # <<>>
                       /\ [i \in DOMAIN text |-> IF text[i] = "N" THEN "n" ELSE text[i]]
                             # <<"n", "o", "n", "e">>
          IN  /\ rag # RagNotCalled
              /\ (last'.llm # "not_called") <=> ~ taken
              /\ taken => last'.resp = OkBody({[text |-> text]})
              /\ ~ taken => last'.resp = call_llm_api(last'.llm)
    ]_vars

\* C21 witness: the retrieval call raised, the language model answered and the
\* turn returned the language model's text.
C21_Witness ==
    /\ last.op = "chat"
    /\ last.rag.status = 0
    /\ last.llm = "ok"
    /\ last.resp = OkBody({[text |-> LlmText]})

\* C21, second witness: the retrieval service answered "None" and the language
\* model was called; the state before held a turn answered by the retrieval
\* service alone.
C21_NoneWitness ==
    /\ last.op = "chat"
    /\ last.rag = [status |-> 200, response |-> <<"N", "o", "n", "e">>]
    /\ last.llm # "not_called"
    /\ \E i \in chat_table : i.bot_message = <<"o", "k">>

(***************************************************************************)
(* Doctor profile                                                          *)
(***************************************************************************)
ProfileEmails  == {"d1@x", "d2@x"}
\* the doctors that sign up
ProfileDoctors == {"d1@x"}
\* field_map, in its order, and the three documents in the order they are read
field_map == <<"specialization", "experience", "fees", "timings", "licenseNumber",
               "registrationId", "affiliation">>
DocTypes  == <<"degreeCertificate", "govtIdProof", "profilePhoto">>

\* A request supplies the fields and documents in the domains of `fields` and
\* `docs`; a field outside the domain is None. fees is an int, the others strings.
FieldValue(key) == IF key = "fees" THEN 500 ELSE "text"
SuppliedFields == {"specialization", "fees"}
SuppliedDocs   == {"degreeCertificate", "profilePhoto"}
UploadDocs     == [filename : {"degree.pdf"}, base64_content : {"QQ==", "Q"}]
DoctorProfileUpdates ==
    UNION {UNION {[email : ProfileEmails,
                   fields : {[k \in fs |-> FieldValue(k)]},
                   docs : [ds -> UploadDocs]]
                  : ds \in SUBSET SuppliedDocs}
           : fs \in SUBSET SuppliedFields}

\* upload_doc_to_s3 for the documents from position i on: the bucket it leaves,
\* the URLs in doc_updates, and the exception b64decode raised, if any.
RECURSIVE UploadDocsLoop(_, _, _, _)
UploadDocsLoop(data, i, store, doc_updates) ==
    IF i > Len(DocTypes)
    THEN [store |-> store, doc_updates |-> doc_updates, raised |-> FALSE]
    ELSE IF DocTypes[i] \notin DOMAIN data.docs
    THEN UploadDocsLoop(data, i + 1, store, doc_updates)
    ELSE LET doc == data.docs[DocTypes[i]]
             key == <<"doctors", data.email, DocTypes[i], doc.filename>>
         IN  IF b64decode(doc.base64_content) = <<>>
             THEN [store |-> store, doc_updates |-> doc_updates, raised |-> TRUE]
             ELSE UploadDocsLoop(data, i + 1,
                                 PutObject(store, key, b64decode(doc.base64_content)),
                                 (DocTypes[i] :> key) @@ doc_updates)

\* update_expr_parts, as the set of attributes it sets: the fields that are not
\* None, the uploaded documents, and "onboarded", which is appended always.
update_expr_parts(data, doc_updates) ==
    {field_map[i] : i \in {j \in DOMAIN field_map : field_map[j] \in DOMAIN data.fields}}
        \cup DOMAIN doc_updates \cup {"onboarded"}

\* expr_values, per attribute
expr_values(data, doc_updates, k) ==
    IF k = "onboarded" THEN TRUE
    ELSE IF k \in DOMAIN doc_updates THEN doc_updates[k]
    ELSE data.fields[k]

\* update_item(Key={"email": email}, "SET k1 = :v1, k2 = :v2, ...")
UpdateItemSet(table, data, doc_updates, parts) ==
    {IF i.email = data.email
     THEN [k \in parts |-> expr_values(data, doc_updates, k)] @@ i
     ELSE i : i \in table}

complete_doctor_profile_try(data) ==
    IF ~ ItemExists(doctors, data.email)
    THEN [store |-> documents, table |-> doctors,
          resp |-> HTTPException(404, "Doctor not found. Please sign up first.")]
    ELSE LET up == UploadDocsLoop(data, 1, documents, <<>>)
             parts == update_expr_parts(data, up.doc_updates)
         IN  IF up.raised
             THEN [store |-> up.store, table |-> doctors,
                   resp |-> PyException("binascii.Error")]
             ELSE IF parts = {}
             THEN [store |-> up.store, table |-> doctors,
                   resp |-> HTTPException(400, "No fields provided to update.")]
             ELSE [store |-> up.store,
                   table |-> UpdateItemSet(doctors, data, up.doc_updates, parts),
                   resp |-> Ok("Doctor profile updated successfully.")]

complete_doctor_profile(data) ==
    LET r == complete_doctor_profile_try(data)
    IN  /\ documents' = r.store
        /\ doctors' = r.table
        /\ last' = [op |-> "update_profile", args |-> data, resp |-> Reraise(r.resp)]
        /\ UNCHANGED <<users, auth_tokens, issued, retired, bookVars, slot_history,
                       vaultVars, chatVars, payVars, inflight>>

CompleteDoctorProfile == \E data \in DoctorProfileUpdates : complete_doctor_profile(data)

\* A doctor's signup, as far as the profile service sees it.
ProfileDoctorSignup ==
    /\ \E email \in ProfileDoctors :
          /\ ~ ItemExists(doctors, email)
          /\ doctors' = PutByEmail(doctors, SignedUpDoctor(email))
          /\ last' = [op |-> "doctor_signup", args |-> [email |-> email, fields |-> <<>>,
                                                        docs |-> <<>>],
                      resp |-> Ok("Doctor created")]
    /\ UNCHANGED <<users, auth_tokens, issued, retired, bookVars, slot_history,
                   vaultVars, chatVars, restVars>>

InitProfile ==
    /\ IdleAuth /\ IdleBook /\ IdleVault /\ IdleChat /\ IdleRest
    /\ last = NoRequest

NextProfile == CompleteDoctorProfile \/ ProfileDoctorSignup

SpecProfile == InitProfile /\ [][NextProfile]_vars

\* C11: an update-profile request for an existing doctor that supplies none of
\* the profile fields and none of the three documents fails with 400 and leaves
\* the doctor's record as it was.
C11_EmptyUpdateRejected ==
    [][(/\ last'.op = "update_profile"
        /\ ItemExists(doctors, last'.args.email)
        /\ DOMAIN last'.args.fields = {}
        /\ DOMAIN last'.args.docs = {}) =>
          /\ last'.resp.status = 400
          /\ doctors' = doctors
    ]_vars

(***************************************************************************)
(* Doctors service: weekly availability                                    *)
(***************************************************************************)
MaxSlots == 2

\* Doctors d1 and d2 have signed up, d3 has not.
SlotDoctors     == {"d1@x", "d2@x", "d3@x"}
SlotDoctorsKnown == {"d1@x", "d2@x"}
\* class WeekDay: two of its members.
WeekDays   == {"Monday", "Tuesday"}
\* class AvailabilitySlot; the two ranges share their start.
AvailabilitySlots == {[start |-> "10:00", end |-> "10:30"], [start |-> "10:00", end |-> "11:00"]}
SlotLists  == UNION {[1 .. n -> AvailabilitySlots] : n \in 0 .. MaxSlots}

DoctorSlotsSetRequests == [doctor_id : SlotDoctors, day : WeekDays, slots : SlotLists]
\* updateSlot is asked for Monday's entries of d1, to enable or to disable them.
DoctorSlotUpdateRequests ==
    [doctor_id : {"d1@x"}, day : {"Monday"}, slot : AvailabilitySlots, available : BOOLEAN]

\* pk = f"{data.doctor_id}#{data.day}", sk = f"{slot.start}-{slot.end}": the day
\* is rendered as the f-string renders a WeekDay member (its value, or
\* "WeekDay.<name>" from Python 3.11 on), one string per member either way.
SlotKey(slot) == <<slot.start, slot.end>>

\* The table the put_item loop of set_availability starts from: the table as it
\* is (upsert), not the table without the day's entries (replace).
SetSlotsTableCleared(table, pk) == {i \in table : i.PK # pk}
SetSlotsTable(table, pk) == table

\* `for slot in data.slots: availability_table.put_item(...)`
RECURSIVE SetSlotsLoop(_, _, _, _)
SetSlotsLoop(slots, k, pk, table) ==
    IF k > Len(slots) THEN table
    ELSE SetSlotsLoop(slots, k + 1, pk,
            PutItem(table, [PK |-> pk, SK |-> SlotKey(slots[k]), available |-> TRUE]))

set_availability(data) ==
    LET pk == <<data.doctor_id, data.day>>
    IN  IF ~ ItemExists(doctors, data.doctor_id)
        THEN /\ last' = [op |-> "set_availability", args |-> data,
                         resp |-> HTTPException(404, "Doctor not found")]
             /\ UNCHANGED <<bookVars, slot_history, authVars, vaultVars, chatVars, restVars>>
        ELSE /\ availability' = SetSlotsLoop(data.slots, 1, pk, SetSlotsTable(availability, pk))
             /\ last' = [op |-> "set_availability", args |-> data,
                         resp |-> Ok("Availability for " \o data.day \o " set successfully.")]
             /\ UNCHANGED <<bookings, slot_history, authVars, vaultVars, chatVars, restVars>>

\* update_slot: one put_item with the flag asked for; the doctor is not looked up.
update_slot(data) ==
    /\ availability' = PutItem(availability, [PK |-> <<data.doctor_id, data.day>>,
                                              SK |-> SlotKey(data.slot),
                                              available |-> data.available])
    /\ last' = [op |-> "update_slot", args |-> data,
                resp |-> Ok(IF data.available THEN "Slot enabled successfully"
                                              ELSE "Slot disabled successfully")]
    /\ UNCHANGED <<bookings, slot_history, authVars, vaultVars, chatVars, restVars>>

SetAvailability == \E data \in DoctorSlotsSetRequests : set_availability(data)
UpdateSlot      == \E data \in DoctorSlotUpdateRequests : update_slot(data)

InitSlots ==
    /\ doctors = {SignedUpDoctor(email) : email \in SlotDoctorsKnown}
    /\ users = {} /\ auth_tokens = {} /\ issued = {} /\ retired = {}
    /\ IdleBook /\ IdleVault /\ IdleChat /\ IdleRest
    /\ last = NoRequest

NextSlots == SetAvailability \/ UpdateSlot

SpecSlots == InitSlots /\ [][NextSlots]_vars

\* C23: a setSlots request for an existing doctor and a weekday succeeds, leaves
\* each supplied start-end entry of that (doctor, weekday) stored with available
\* = true, and leaves every other entry of the availability store (other ranges
\* of the day, other days, other doctors) as it was, adding none; for a doctor
\* that does not exist it fails with 404 and the store is unchanged.
C23_SetSlotsUpserts ==
    [][last'.op = "set_availability" =>
          LET data == last'.args
              pk == <<data.doctor_id, data.day>>
              supplied == {<<data.slots[k].start, data.slots[k].end>> : k \in DOMAIN data.slots}
              other(table) == {i \in table : ~(i.PK = pk /\ i.SK \in supplied)}
          IN  IF \E d \in doctors : d.email = data.doctor_id
              THEN /\ last'.resp.status = 200
                   /\ \A sk \in supplied :
                         [PK |-> pk, SK |-> sk, available |-> TRUE] \in availability'
                   /\ other(availability') = other(availability)
              ELSE /\ last'.resp.status = 404
                   /\ availability' = availability
    ]_vars

\* C23 witness: a setSlots request supplied one of Monday's two ranges of d1
\* while the other was stored disabled and d2 had entries of its own; the
\* disabled entry is still there.
C23_Witness ==
    /\ last.op = "set_availability"
    /\ last.resp.status = 200
    /\ last.args.doctor_id = "d1@x" /\ last.args.day = "Monday"
    /\ Len(last.args.slots) = 1
    /\ \E i \in availability :
          /\ i.PK = <<"d1@x", "Monday">>
          /\ i.SK # <<last.args.slots[1].start, last.args.slots[1].end>>
          /\ ~ i.available
    /\ \E i \in availability : i.PK[1] = "d2@x"

\* C23, second witness: a setSlots request for the doctor that does not exist
\* was refused while the store held entries.
C23_NotFoundWitness ==
    /\ last.op = "set_availability"
    /\ last.resp.status = 404
    /\ last.args.slots # <<>>
    /\ availability # {}

(***************************************************************************)
(* Payment                                                                 *)
(***************************************************************************)
MaxLinks    == 1
MaxVerifies == 2

\* An amount of the request body: a JSON number with at most two decimal places,
\* given in hundredths (499.99 is 49999), or a JSON string.
PaymentAmounts == {29, 100, 49999}
Number(hundredths) == [isnumber |-> TRUE, hundredths |-> hundredths]
BodyAmounts == {Number(c) : c \in PaymentAmounts \cup {0, -100}}
                  \cup {[isnumber |-> FALSE, hundredths |-> 0]}
\* The payment ids of the gateway, in the order it assigns them; "" is falsy.
PaymentIds == <<"pay_1", "pay_2", "pay_3">>
BodyPaymentIds == {"pay_1", "pay_2", ""}
Bodies == {<<>>} \cup {[amount |-> a] : a \in BodyAmounts}
             \cup {[payment_id |-> p] : p \in BodyPaymentIds}
             \cup {[amount |-> Number(100), payment_id |-> "pay_1"]}
Events == [httpMethod : {"POST"}, body : Bodies]
             \cup {[httpMethod |-> "OPTIONS", body |-> <<>>]}

\* ---- float arithmetic: int(amount * 100) ----
\* amount is the IEEE 754 double nearest to c / 100, the product is rounded to a
\* double again and int() truncates. With E the exponent of c / 100
\* (2^E <= c / 100 < 2^(E+1)) and s = 52 - E, the double is m * 2^-s for the
\* integer m nearest to c * 2^s / 100, so that 100 * m = c * 2^s + r with r the
\* centred remainder of c * 2^s by 100 (no tie: 4 divides c * 2^s). The product
\* has 59 or 60 bits; with 59 it is rounded to a multiple of 64, with 60 to a
\* multiple of 128, and c * 2^s is a multiple of both: the product rounds to
\* c * 2^s - 64 when it has 59 bits and r < -32, and to c * 2^s otherwise.
RECURSIVE Pow2(_)
Pow2(n) == IF n = 0 THEN 1 ELSE 2 * Pow2(n - 1)
RECURSIVE Pow2Mod100(_)
Pow2Mod100(n) == IF n = 0 THEN 1 ELSE (2 * Pow2Mod100(n - 1)) % 100
\* E, searched upwards from -7 (c >= 1): 100 * 2^E <= c < 100 * 2^(E+1)
RECURSIVE FloatExponentFrom(_, _)
FloatExponentFrom(c, e) ==
    IF (IF e < 0 THEN c * Pow2(-(e + 1)) < 100 ELSE c < 100 * Pow2(e + 1))
    THEN e ELSE FloatExponentFrom(c, e + 1)
FloatExponent(c) == FloatExponentFrom(c, -7)
TimesHundredTrunc(c) ==
    LET E == FloatExponent(c)
        q == ((c % 100) * Pow2Mod100(52 - E)) % 100
        r == IF q < 50 THEN -q ELSE 100 - q
        bits59 == c < Pow2(7 + E) \/ (c = Pow2(7 + E) /\ r < 0)
    IN  IF bits59 /\ r < -32 THEN c - 1 ELSE c

\* Decimal(amount) / Decimal(100): an exact decimal, coefficient * 10^exponent
DecimalDiv100(amount) ==
    IF amount % 100 = 0 THEN [coefficient |-> amount \div 100, exponent |-> 0]
    ELSE IF amount % 10 = 0 THEN [coefficient |-> amount \div 10, exponent |-> -1]
    ELSE [coefficient |-> amount, exponent |-> -2]
\* the value of such a decimal, in hundredths
Hundredths(dec) ==
    CASE dec.exponent = 0 -> dec.coefficient * 100
      [] dec.exponent = -1 -> dec.coefficient * 10
      [] OTHER -> dec.coefficient

\* The gateway holds the amounts of the payment links it has created, in order,
\* and per payment id the payment it reports to payment.fetch, whose status is
\* "authorized", "captured" or "failed".
generate_invoice_url(payment_id) == <<"https://yourwebsite.com/invoices", payment_id>>

\* The responses of the lambda: statusCode and {"error": ...} or {"message": ...}
create_payment_link_try(body, reached) ==
    LET amount == body.amount
    IN  IF amount.hundredths = 0 \/ ~ amount.isnumber \/ amount.hundredths <= 0
        THEN [links |-> gateway.links, resp |-> HTTPException(400, "Invalid amount")]
        ELSE IF ~ reached
        THEN [links |-> gateway.links, resp |-> PyException("gateway error")]
        ELSE [links |-> Append(gateway.links, TimesHundredTrunc(amount.hundredths)),
              resp |-> Ok("Payment link created successfully")]

\* verify_payment: the item is put whatever the status the gateway reports.
verify_payment_try(body) ==
    LET payment_id == body.payment_id
    IN  IF payment_id = ""
        THEN [put |-> {}, resp |-> HTTPException(400, "Missing payment_id")]
        ELSE IF payment_id \notin DOMAIN gateway.payments
        THEN [put |-> {}, resp |-> PyException("BadRequestError")]
        ELSE LET payment_details == gateway.payments[payment_id]
                 status == payment_details.status
                 invoice_url == IF status = "captured"
                                THEN generate_invoice_url(payment_id) ELSE <<>>
             IN  [put |-> {[payment_id |-> payment_id,
                            order_id |-> payment_details.order_id,
                            amount |-> DecimalDiv100(payment_details.amount),
                            currency |-> "INR", status |-> status,
                            timestamp |-> now, invoice_url |-> invoice_url]},
                  resp |-> OkBody({[order_id |-> payment_details.order_id,
                                    payment_id |-> payment_id, status |-> status,
                                    invoice_url |-> invoice_url]})]

\* table.put_item, with the history of the calls made
PutPayment(table, put) ==
    {i \in table : \A n \in put : i.payment_id # n.payment_id} \cup put
CountPut(writes, put) ==
    [id \in DOMAIN writes |->
        IF \E n \in put : n.payment_id = id THEN writes[id] + 1 ELSE writes[id]]

\* lambda_handler routes by the shape of the body; every function turns an
\* exception into a 500 response.
lambda_handler(event, reached) ==
    LET body == event.body
        create == create_payment_link_try(body, reached)
        verify == verify_payment_try(body)
    IN  IF event.httpMethod = "OPTIONS"
        THEN /\ last' = [op |-> "preflight", args |-> body,
                         resp |-> Ok("CORS Preflight successful")]
             /\ UNCHANGED <<payVars, authVars, bookVars, slot_history, vaultVars,
                            chatVars, docVars, inflight>>
        ELSE IF "amount" \in DOMAIN body /\ "payment_id" \notin DOMAIN body
        THEN /\ gateway' = [gateway EXCEPT !.links = create.links]
             /\ last' = [op |-> "create_payment_link", args |-> body,
                         resp |-> Reraise(create.resp)]
             /\ UNCHANGED <<payments, payment_writes, authVars, bookVars, slot_history,
                            vaultVars, chatVars, docVars, inflight>>
        ELSE IF "payment_id" \in DOMAIN body
        THEN /\ payments' = PutPayment(payments, verify.put)
             /\ payment_writes' = CountPut(payment_writes, verify.put)
             /\ last' = [op |-> "verify_payment", args |-> body,
                         resp |-> Reraise(verify.resp)]
             /\ UNCHANGED <<gateway, authVars, bookVars, slot_history, vaultVars,
                            chatVars, docVars, inflight>>
        ELSE /\ last' = [op |-> "invalid", args |-> body,
                         resp |-> HTTPException(400, "Invalid request")]
             /\ UNCHANGED <<payVars, authVars, bookVars, slot_history, vaultVars,
                            chatVars, docVars, inflight>>

\* The lambda is called: at most MaxLinks links are created and the payment of
\* a request is verified at most MaxVerifies times.
LambdaHandler == \E event \in Events, reached \in BOOLEAN :
    /\ ("amount" \in DOMAIN event.body /\ "payment_id" \notin DOMAIN event.body) =>
          Len(gateway.links) < MaxLinks
    /\ ("payment_id" \in DOMAIN event.body
           /\ event.body.payment_id \in DOMAIN payment_writes) =>
          payment_writes[event.body.payment_id] < MaxVerifies
    /\ lambda_handler(event, reached)

\* The customer pays a link: the gateway holds a payment of the link's amount,
\* authorized or failed.
GatewayPay == \E i \in DOMAIN gateway.links, status \in {"authorized", "failed"} :
    /\ PaymentIds[i] \notin DOMAIN gateway.payments
    /\ gateway' = [gateway EXCEPT !.payments =
                      (PaymentIds[i] :> [order_id |-> "order", status |-> status,
                                         amount |-> gateway.links[i]]) @@ @]
    /\ last' = [op |-> "gateway_pay", args |-> <<>>, resp |-> Ok("")]
    /\ UNCHANGED <<payments, payment_writes, authVars, bookVars, slot_history, vaultVars,
                   chatVars, docVars, inflight>>

\* The gateway captures an authorized payment.
GatewayCapture == \E id \in DOMAIN gateway.payments :
    /\ gateway.payments[id].status = "authorized"
    /\ gateway' = [gateway EXCEPT !.payments[id].status = "captured"]
    /\ last' = [op |-> "gateway_capture", args |-> <<>>, resp |-> Ok("")]
    /\ UNCHANGED <<payments, payment_writes, authVars, bookVars, slot_history, vaultVars,
                   chatVars, docVars, inflight>>

InitPayment ==
    /\ payments = {}
    /\ payment_writes = [i \in {PaymentIds[j] : j \in DOMAIN PaymentIds} |-> 0]
    /\ gateway = [links |-> <<>>, payments |-> <<>>]
    /\ IdleAuth /\ IdleBook /\ IdleVault /\ IdleChat /\ IdleDocs /\ inflight = {}
    /\ last = NoRequest

NextPayment == LambdaHandler \/ GatewayPay \/ GatewayCapture

SpecPayment == InitPayment /\ [][NextPayment]_vars

\* C16: across any sequence of verify-payment requests the payment item of a
\* payment_id is written at most once, and only when the gateway reports the
\* payment as captured.
C16_PaymentWrittenOnce ==
    [][last'.op = "verify_payment" =>
          \A id \in DOMAIN payment_writes :
              payment_writes'[id] > payment_writes[id] =>
                  /\ gateway.payments[id].status = "captured"
                  /\ payment_writes'[id] <= 1
    ]_vars

\* C20: create-payment-link hands the gateway amount x 100 as an exact number of
\* minor units (499.99 gives 49999), and verify-payment stores the gateway's
\* minor-unit amount divided by 100 as an exact decimal, so that an amount with
\* at most two decimal places is stored as it was given.
C20_AmountRoundTrip ==
    [][/\ (last'.op = "create_payment_link" /\ last'.resp.status = 200) =>
             /\ Len(gateway'.links) = Len(gateway.links) + 1
             /\ gateway'.links[Len(gateway'.links)] = last'.args.amount.hundredths
       /\ (last'.op = "verify_payment" /\ last'.resp.status = 200) =>
             \A i \in payments' : i.payment_id = last'.args.payment_id =>
                 Hundredths(i.amount) = gateway.payments[i.payment_id].amount
    ]_vars

=============================================================================
